---------------------------- MODULE Spec2Model ----------------------------
(***************************************************************************)
(* A model of the mp-news-room pipeline (package mp_news_feed):           *)
(*   - main.py            run() and its three phases, the artifact files  *)
(*   - search_service.py  run_search_async: fan-out and aggregation       *)
(*   - tools/*.py         the Serper, Brevo and SendGrid tool wrappers    *)
(*                                                                         *)
(* Python values.  A str is a sequence of symbols.  A symbol is one       *)
(* character (QUOTE, BSLASH, LF, CR, EACUTE, a letter, a digit, ...) or,  *)
(* as an abbreviation, a run of plain printable ASCII characters that     *)
(* contains none of the characters json or the text layer treat specially *)
(* ("mp_name", "Ann").  None-able values are options: <<>> is None and    *)
(* <<x>> is the value x.  A dict is the sequence of its <<key, value>>    *)
(* pairs in insertion order; values that reach json are tagged with their *)
(* Python type: [str |-> s], [int |-> n], [list |-> xs], [dict |-> kvs].  *)
(***************************************************************************)
EXTENDS Integers, Sequences, FiniteSets, TLC

VARIABLES
    \* ---- run_search_async (search_service.py) ----
    mp_list,          \* parameter: list of MPs, each [name, country]
    timeframe,        \* parameter
    today,            \* parameter: option of str (None -> datetime.now())
    max_concurrency,  \* parameter
    s_pc,             \* position in run_search_async
    inputs_list,      \* list built at lines 41-49
    max_rpm,          \* crew.max_rpm, option of int
    exec,             \* per input: "pending" | "running" | "done"
    outs,             \* per input: option of the CrewOutput of its execution
    results,          \* value of `results` once the await returned
    idx,              \* position of the aggregation loop in results
    research_list,    \* the list being aggregated
    s_log,            \* what run_search_async printed as warnings
    s_ret,            \* option of the returned dict
    s_exc,            \* option of the exception run_search_async raised
    \* ---- the environment of a run (main.py) ----
    args,             \* parse_args(): [search_only, analyze_only, email_only]
    mp_file,          \* knowledge/mp_list.json: missing, invalid, or its list
    linesep,          \* os.linesep of the platform
    files,            \* the two artifacts: file -> option of its stored text
    \* ---- run() (main.py) ----
    pc,               \* where run() is: at start, inside a call, or ended
    inputs,           \* option of the inputs dict of get_inputs()
    search_results,   \* option of run()'s local search_results
    analysis_kickoff, \* option of the inputs analysis_crew().kickoff got
    email_kickoff,    \* option of the inputs email_crew().kickoff got
    events,           \* what the run did so far, in order: <<kind, what>>
    exit_status,      \* option of the exit status of the process
    raised,           \* option of the exception that left run()
    \* ---- the artifacts written and read back (main.py) ----
    saved,            \* option of the dict run_phase1_search wrote last
    loaded_results,   \* option of how load_search_results ended since then
    loaded_report,    \* option of what load_summary_report returned last
    \* ---- the tools (tools/*.py) ----
    env,              \* os.environ: variable -> option of its value
    serper,           \* option of the DateFilteredSerperTool constructed
    http_log,         \* the HTTP requests sent, in order
    send_log,         \* the send calls made to an email provider, in order
    tool_log          \* how each _run ended, in order: <<tool, how, value>>

searchVars == <<mp_list, timeframe, today, max_concurrency, s_pc, inputs_list,
                max_rpm, exec, outs, results, idx, research_list, s_log,
                s_ret, s_exc>>

envVars == <<args, mp_file, linesep, files>>
runVars == <<pc, inputs, search_results, analysis_kickoff, email_kickoff,
             events, exit_status, raised>>

ioVars == <<saved, loaded_results, loaded_report>>
toolVars == <<env, serper, http_log, send_log, tool_log>>

vars == <<searchVars, envVars, runVars, ioVars, toolVars>>

----------------------------------------------------------------------------
\* Bounds of the model.
MaxMPs == 2          \* longest mp_list explored
MaxConc == 2         \* largest max_concurrency explored

\* main.py line 104: the max_concurrency run_phase1_search passes.
PhaseOneConcurrency == 10

\* Special characters.
QUOTE == "QUOTE"     \* "
BSLASH == "BSLASH"   \* \
LF == "LF"           \* \n
CR == "CR"           \* \r
EACUTE == "EACUTE"   \* U+00E9, a non-ASCII character

None == <<>>
Some(x) == <<x>>

\* The concatenation of a sequence of sequences (by halves: shallow recursion).
RECURSIVE Flatten(_)
Flatten(ss) ==
    IF ss = <<>> THEN <<>>
    ELSE IF Len(ss) = 1 THEN ss[1]
    ELSE LET mid == Len(ss) \div 2
         IN  Flatten(SubSeq(ss, 1, mid)) \o Flatten(SubSeq(ss, mid + 1, Len(ss)))

RECURSIVE SeqsUpTo(_, _)
SeqsUpTo(S, n) ==
    IF n = 0 THEN {<<>>}
    ELSE LET shorter == SeqsUpTo(S, n - 1)
         IN  shorter \cup {Append(s, x) : s \in shorter, x \in S}

PyStr(s) == [str |-> s]
PyInt(n) == [int |-> n]
PyList(xs) == [list |-> xs]
PyDict(kvs) == [dict |-> kvs]

\* d[k] for a dict d that holds the key k.
Get(d, k) == d.dict[CHOOSE i \in 1..Len(d.dict) : d.dict[i][1] = k][2]
----------------------------------------------------------------------------
\* The data the model draws from.
MP1 == [name |-> <<"Ann">>, country |-> <<"DE">>]
MP2 == [name |-> <<"Bob">>, country |-> <<"FR">>]
MPs == {MP1, MP2}

DefaultTimeframe == <<"8 months">>
TodayArg == <<"2025-01-15">>     \* a today the caller passes
NowStr == <<"2025-02-01">>       \* datetime.now().strftime('%Y-%m-%d')

\* search_crew.ArticleResult values; every field of an article differs from
\* every other, and the summaries hold the characters json escapes.
Article1 == [title |-> <<"T1">>, url |-> <<"u1">>, publication_date |-> <<"d1">>,
             source |-> <<"s1">>, summary |-> <<"x", QUOTE, LF>>]
Article2 == [title |-> <<"T2">>, url |-> <<"u2">>, publication_date |-> <<"d2">>,
             source |-> <<"s2">>, summary |-> <<BSLASH, "n", CR, EACUTE>>]
ArticleLists == {<<>>, <<Article1>>, <<Article1, Article2>>, <<Article2, Article2>>}

\* A name the model may give back instead of the one it was asked about.
OtherName == <<"A. Nn">>
----------------------------------------------------------------------------
(***************************************************************************)
(* The json module and text-mode files, as main.py uses them:              *)
(* json.dump(obj, f, indent=2), json.load(f), open(path, 'w'),             *)
(* open(path, 'r').                                                        *)
(***************************************************************************)
Digits == <<"0", "1", "2", "3", "4", "5", "6", "7", "8", "9">>
IsDigit(c) == \E d \in 1..10 : Digits[d] = c
DigitValue(c) == (CHOOSE d \in 1..10 : Digits[d] = c) - 1

RECURSIVE Decimal(_)
Decimal(n) == IF n < 10 THEN <<Digits[n + 1]>>
              ELSE Append(Decimal(n \div 10), Digits[(n % 10) + 1])

\* A JsonEscape that writes a line feed as it is.
JsonEscape_RawNewline(c) ==
    CASE c = QUOTE -> <<BSLASH, QUOTE>>
      [] c = BSLASH -> <<BSLASH, BSLASH>>
      [] c = CR -> <<BSLASH, "r">>
      [] c = EACUTE -> <<BSLASH, "u", "0", "0", "e", "9">>
      [] OTHER -> <<c>>

\* json's string encoder with ensure_ascii (the default).
JsonEscape(c) ==
    CASE c = QUOTE -> <<BSLASH, QUOTE>>
      [] c = BSLASH -> <<BSLASH, BSLASH>>
      [] c = LF -> <<BSLASH, "n">>
      [] c = CR -> <<BSLASH, "r">>
      [] c = EACUTE -> <<BSLASH, "u", "0", "0", "e", "9">>
      [] OTHER -> <<c>>

JsonString(s) ==
    <<QUOTE>> \o Flatten([i \in 1..Len(s) |-> JsonEscape(s[i])]) \o <<QUOTE>>

IndentWidth == 2
Indent(depth) == [i \in 1..(IndentWidth * depth) |-> " "]

\* json.dumps(v, indent=2) at nesting depth `depth`.
RECURSIVE JsonDumps(_, _)
JsonDumps(v, depth) ==
    LET Sep(i) == IF i = 1 THEN <<>> ELSE <<",">>
        Line(i) == Sep(i) \o <<LF>> \o Indent(depth + 1)
    IN  IF "str" \in DOMAIN v THEN JsonString(v.str)
        ELSE IF "int" \in DOMAIN v THEN Decimal(v.int)
        ELSE IF "list" \in DOMAIN v THEN
            IF v.list = <<>> THEN <<"[", "]">>
            ELSE <<"[">>
                 \o Flatten([i \in 1..Len(v.list) |->
                        Line(i) \o JsonDumps(v.list[i], depth + 1)])
                 \o <<LF>> \o Indent(depth) \o <<"]">>
        ELSE
            IF v.dict = <<>> THEN <<"{", "}">>
            ELSE <<"{">>
                 \o Flatten([i \in 1..Len(v.dict) |->
                        Line(i) \o JsonString(v.dict[i][1]) \o <<":", " ">>
                                \o JsonDumps(v.dict[i][2], depth + 1)])
                 \o <<LF>> \o Indent(depth) \o <<"}">>

\* A parse that failed (json.JSONDecodeError).
JsonError == [ok |-> FALSE]
JsonOk(v, rest) == [ok |-> TRUE, val |-> v, rest |-> rest]

IsJsonSpace(c) == c \in {" ", LF, CR, "TAB"}

RECURSIVE SkipSpace(_)
SkipSpace(t) == IF t # <<>> /\ IsJsonSpace(t[1]) THEN SkipSpace(Tail(t)) ELSE t

From(t, i) == SubSeq(t, i, Len(t))

\* The string whose opening quote has been read, decoded up to its closing
\* quote (strict: no raw control character inside a string).
RECURSIVE ScanString(_, _)
ScanString(t, acc) ==
    IF t = <<>> THEN JsonError
    ELSE IF t[1] = QUOTE THEN JsonOk(acc, Tail(t))
    ELSE IF t[1] \in {LF, CR, "TAB"} THEN JsonError
    ELSE IF t[1] = BSLASH THEN
        IF Len(t) < 2 THEN JsonError
        ELSE IF t[2] = QUOTE THEN ScanString(From(t, 3), Append(acc, QUOTE))
        ELSE IF t[2] = BSLASH THEN ScanString(From(t, 3), Append(acc, BSLASH))
        ELSE IF t[2] = "n" THEN ScanString(From(t, 3), Append(acc, LF))
        ELSE IF t[2] = "r" THEN ScanString(From(t, 3), Append(acc, CR))
        ELSE IF t[2] = "u" /\ Len(t) >= 6
                /\ SubSeq(t, 3, 6) = <<"0", "0", "e", "9">>
             THEN ScanString(From(t, 7), Append(acc, EACUTE))
        ELSE JsonError
    ELSE ScanString(Tail(t), Append(acc, t[1]))

RECURSIVE ScanInt(_, _)
ScanInt(t, acc) ==
    IF t # <<>> /\ IsDigit(t[1])
    THEN ScanInt(Tail(t), 10 * acc + DigitValue(t[1]))
    ELSE JsonOk(PyInt(acc), t)

RECURSIVE ParseValue(_)
RECURSIVE ParseItems(_, _)
RECURSIVE ParseMembers(_, _)

\* The items of an array after its "[" or after a ",".
ParseItems(t, acc) ==
    LET item == ParseValue(SkipSpace(t))
    IN  IF ~item.ok THEN JsonError
        ELSE LET more == SkipSpace(item.rest)
                 xs == Append(acc, item.val)
             IN  IF more = <<>> THEN JsonError
                 ELSE IF more[1] = "," THEN ParseItems(Tail(more), xs)
                 ELSE IF more[1] = "]" THEN JsonOk(PyList(xs), Tail(more))
                 ELSE JsonError

\* The members of an object after its "{" or after a ",".
ParseMembers(t, acc) ==
    LET at == SkipSpace(t)
    IN  IF at = <<>> \/ at[1] # QUOTE THEN JsonError
        ELSE LET key == ScanString(Tail(at), <<>>)
             IN  IF ~key.ok THEN JsonError
                 ELSE LET colon == SkipSpace(key.rest)
                      IN  IF colon = <<>> \/ colon[1] # ":" THEN JsonError
                          ELSE LET item == ParseValue(SkipSpace(Tail(colon)))
                               IN  IF ~item.ok THEN JsonError
                                   ELSE LET more == SkipSpace(item.rest)
                                            kvs == Append(acc, <<key.val, item.val>>)
                                        IN  IF more = <<>> THEN JsonError
                                            ELSE IF more[1] = ","
                                                 THEN ParseMembers(Tail(more), kvs)
                                            ELSE IF more[1] = "}"
                                                 THEN JsonOk(PyDict(kvs), Tail(more))
                                            ELSE JsonError

ParseValue(t) ==
    IF t = <<>> THEN JsonError
    ELSE IF t[1] = QUOTE THEN
        LET str == ScanString(Tail(t), <<>>)
        IN  IF str.ok THEN JsonOk(PyStr(str.val), str.rest) ELSE JsonError
    ELSE IF IsDigit(t[1]) THEN ScanInt(t, 0)
    ELSE IF t[1] = "[" THEN
        LET in == SkipSpace(Tail(t))
        IN  IF in # <<>> /\ in[1] = "]" THEN JsonOk(PyList(<<>>), Tail(in))
            ELSE ParseItems(in, <<>>)
    ELSE IF t[1] = "{" THEN
        LET in == SkipSpace(Tail(t))
        IN  IF in # <<>> /\ in[1] = "}" THEN JsonOk(PyDict(<<>>), Tail(in))
            ELSE ParseMembers(in, <<>>)
    ELSE JsonError

\* json.loads(t): the value, or JsonError.
JsonLoads(t) ==
    LET v == ParseValue(SkipSpace(t))
    IN  IF v.ok /\ SkipSpace(v.rest) = <<>> THEN v ELSE JsonError

\* f.write(s) on a file opened with open(path, 'w'): every "\n" becomes
\* os.linesep.
TextWrite(s, sep) ==
    Flatten([i \in 1..Len(s) |-> IF s[i] = LF THEN sep ELSE <<s[i]>>])

\* A TextRead that hands the stored characters back as they are.
TextRead_Raw(t) == t

\* f.read() on a file opened with open(path, 'r'): universal newlines, every
\* "\r\n" and every remaining "\r" comes back as "\n".
TextRead(t) ==
    Flatten([i \in 1..Len(t) |->
                IF t[i] = CR THEN <<LF>>
                ELSE IF t[i] = LF /\ i > 1 /\ t[i - 1] = CR THEN <<>>
                ELSE <<t[i]>>])

----------------------------------------------------------------------------
(***************************************************************************)
(* search_service.py                                                       *)
(***************************************************************************)

\* What one SearchCrew execution hands back (a CrewOutput, or whatever the
\* library returns in its place), by the properties the aggregation loop
\* tests: its truth value, hasattr(result, 'pydantic'), the value of
\* result.pydantic (None when the output was not parsed), hasattr(result,
\* 'raw').
Parsed(name, articles) ==
    [truthy |-> TRUE, has_pydantic |-> TRUE,
     pydantic |-> Some([mp_name |-> name, articles |-> articles]),
     has_raw |-> TRUE]
Unparsed == [truthy |-> TRUE, has_pydantic |-> TRUE, pydantic |-> None,
             has_raw |-> TRUE]
RawOnly == [truthy |-> TRUE, has_pydantic |-> FALSE, pydantic |-> None,
            has_raw |-> TRUE]
NoResult == [truthy |-> FALSE, has_pydantic |-> FALSE, pydantic |-> None,
             has_raw |-> FALSE]

\* The outputs the execution for `input` may come back with.
CrewOutputs(input) ==
    {Parsed(n, as) : n \in {input.mp_name, OtherName}, as \in ArticleLists}
        \cup {Unparsed, RawOnly, NoResult}

\* Lines 37-38.
DefaultToday(t) == IF t = None THEN NowStr ELSE t[1]

\* A BuildInputs that loses the last entry of mp_list.
BuildInputs_DropLast(mps, tf, td) ==
    [i \in 1..(Len(mps) - 1) |->
        [mp_name |-> mps[i].name, mp_country |-> mps[i].country,
         timeframe |-> tf, today |-> td]]

\* Lines 41-49: one input per entry of mp_list.
BuildInputs(mps, tf, td) ==
    [i \in 1..Len(mps) |->
        [mp_name |-> mps[i].name, mp_country |-> mps[i].country,
         timeframe |-> tf, today |-> td]]

\* Line 58.
MaxRpm(maxc) == maxc * 20

\* Lines 70-77: the record appended for one article of mp_result.
MpNewsResearchRecord(mp_result, article) ==
    PyDict(<< << <<"mp_name">>, PyStr(mp_result.mp_name)>>,
              << <<"article_title">>, PyStr(article.title)>>,
              << <<"article_url">>, PyStr(article.url)>>,
              << <<"publication_date">>, PyStr(article.publication_date)>>,
              << <<"source_name">>, PyStr(article.source)>>,
              << <<"article_summary">>, PyStr(article.summary)>> >>)

\* Line 66: the branch that reads result.pydantic.
TakesPydantic(result) == result.truthy /\ result.has_pydantic

\* Line 69: mp_result.articles on mp_result = None is an AttributeError.
AggregateRaises(result) == TakesPydantic(result) /\ result.pydantic = None

\* A RecordsOf that keeps one record per distinct article of a result.
RecordsOf_Dedup(result) ==
    IF TakesPydantic(result) /\ result.pydantic # None
    THEN LET mp_result == result.pydantic[1]
             as == mp_result.articles
             firsts == SelectSeq([j \in 1..Len(as) |-> <<j, as[j]>>],
                           LAMBDA p : \A k \in 1..(p[1] - 1) : as[k] # p[2])
         IN  [j \in 1..Len(firsts) |->
                 MpNewsResearchRecord(mp_result, firsts[j][2])]
    ELSE <<>>

\* Lines 67-77: the records one result contributes.
RecordsOf(result) ==
    IF TakesPydantic(result) /\ result.pydantic # None
    THEN LET mp_result == result.pydantic[1]
         IN  [j \in 1..Len(mp_result.articles) |->
                 MpNewsResearchRecord(mp_result, mp_result.articles[j])]
    ELSE <<>>

\* Lines 78-80: the warning branch.
WarnsRaw(result) == ~TakesPydantic(result) /\ result.truthy /\ result.has_raw

\* Lines 84-89.
SearchResultDict(rl, mps, td, tf) ==
    PyDict(<< << <<"research_list">>, PyList(rl)>>,
              << <<"mp_count">>, PyInt(Len(mps))>>,
              << <<"search_date">>, PyStr(td)>>,
              << <<"timeframe">>, PyStr(tf)>> >>)

InFlight == {i \in DOMAIN exec : exec[i] = "running"}

\* Lines 37-59: defaults, inputs_list, the crew and its max_rpm, and the call
\* of crew.kickoff_for_each_async(inputs=inputs_list).  Only inputs_list is
\* handed to the library; max_concurrency is printed and sets max_rpm.
SearchStart ==
    /\ s_pc = "init"
    /\ LET td == DefaultToday(today)
           il == BuildInputs(mp_list, timeframe, td)
       IN  /\ today' = Some(td)
           /\ inputs_list' = il
           /\ exec' = [i \in 1..Len(il) |-> "pending"]
           /\ outs' = [i \in 1..Len(il) |-> None]
    /\ max_rpm' = Some(MaxRpm(max_concurrency))
    /\ s_pc' = "awaiting"
    /\ UNCHANGED <<envVars, runVars, ioVars, toolVars>>
    /\ UNCHANGED <<mp_list, timeframe, max_concurrency, results, idx,
                   research_list, s_log, s_ret, s_exc>>

\* The library starts the execution of input i.
CrewStart(i) ==
    /\ s_pc = "awaiting"
    /\ exec[i] = "pending"
    /\ exec' = [exec EXCEPT ![i] = "running"]
    /\ UNCHANGED <<envVars, runVars, ioVars, toolVars>>
    /\ UNCHANGED <<mp_list, timeframe, today, max_concurrency, s_pc,
                   inputs_list, max_rpm, outs, results, idx, research_list,
                   s_log, s_ret, s_exc>>

\* The execution of input i returns its output.
CrewFinish(i) ==
    /\ s_pc = "awaiting"
    /\ exec[i] = "running"
    /\ \E r \in CrewOutputs(inputs_list[i]) :
          outs' = [outs EXCEPT ![i] = Some(r)]
    /\ exec' = [exec EXCEPT ![i] = "done"]
    /\ UNCHANGED <<envVars, runVars, ioVars, toolVars>>
    /\ UNCHANGED <<mp_list, timeframe, today, max_concurrency, s_pc,
                   inputs_list, max_rpm, results, idx, research_list,
                   s_log, s_ret, s_exc>>

\* The execution of input i raises: the await at line 59 raises it.
CrewFail(i) ==
    /\ s_pc = "awaiting"
    /\ exec[i] = "running"
    /\ exec' = [exec EXCEPT ![i] = "done"]
    /\ s_pc' = "raised"
    /\ s_exc' = Some("CrewError")
    /\ UNCHANGED <<envVars, runVars, ioVars, toolVars>>
    /\ UNCHANGED <<mp_list, timeframe, today, max_concurrency, inputs_list,
                   max_rpm, outs, results, idx, research_list, s_log, s_ret>>

\* A SearchGathered that goes on as soon as one execution is done, with the
\* outputs that are there.
SearchGathered_Early ==
    /\ s_pc = "awaiting"
    /\ \E i \in DOMAIN exec : exec[i] = "done"
    /\ LET there == SelectSeq(outs, LAMBDA o : o # None)
       IN  results' = [i \in DOMAIN there |-> there[i][1]]
    /\ research_list' = <<>>
    /\ idx' = 1
    /\ s_pc' = "aggregating"
    /\ UNCHANGED <<envVars, runVars, ioVars, toolVars>>
    /\ UNCHANGED <<mp_list, timeframe, today, max_concurrency, inputs_list,
                   max_rpm, exec, outs, s_log, s_ret, s_exc>>

\* Line 59 returns: every execution is done, results are in input order.
SearchGathered ==
    /\ s_pc = "awaiting"
    /\ \A i \in DOMAIN exec : exec[i] = "done"
    /\ results' = [i \in DOMAIN outs |-> outs[i][1]]
    /\ research_list' = <<>>
    /\ idx' = 1
    /\ s_pc' = "aggregating"
    /\ UNCHANGED <<envVars, runVars, ioVars, toolVars>>
    /\ UNCHANGED <<mp_list, timeframe, today, max_concurrency, inputs_list,
                   max_rpm, exec, outs, s_log, s_ret, s_exc>>

\* Lines 65-80: one iteration of the loop over results.
AggregateNext ==
    /\ s_pc = "aggregating"
    /\ idx <= Len(results)
    /\ LET result == results[idx]
       IN  IF AggregateRaises(result)
           THEN /\ s_pc' = "raised"
                /\ s_exc' = Some("AttributeError")
                /\ UNCHANGED <<idx, research_list, s_log>>
           ELSE /\ research_list' = research_list \o RecordsOf(result)
                /\ s_log' = IF WarnsRaw(result)
                            THEN Append(s_log, <<"Warning: raw output", idx>>)
                            ELSE s_log
                /\ idx' = idx + 1
                /\ UNCHANGED <<s_pc, s_exc>>
    /\ UNCHANGED <<envVars, runVars, ioVars, toolVars>>
    /\ UNCHANGED <<mp_list, timeframe, today, max_concurrency, inputs_list,
                   max_rpm, exec, outs, results, s_ret>>

\* Lines 82-89.
SearchReturn ==
    /\ s_pc = "aggregating"
    /\ idx > Len(results)
    /\ s_ret' = Some(SearchResultDict(research_list, mp_list, today[1], timeframe))
    /\ s_pc' = "returned"
    /\ UNCHANGED <<envVars, runVars, ioVars, toolVars>>
    /\ UNCHANGED <<mp_list, timeframe, today, max_concurrency, inputs_list,
                   max_rpm, exec, outs, results, idx, research_list, s_log,
                   s_exc>>

SearchIdle ==
    /\ mp_list = <<>> /\ timeframe = DefaultTimeframe /\ today = None
    /\ max_concurrency = 1 /\ s_pc = "idle" /\ inputs_list = <<>>
    /\ max_rpm = None /\ exec = <<>> /\ outs = <<>> /\ results = <<>>
    /\ idx = 0 /\ research_list = <<>> /\ s_log = <<>> /\ s_ret = None
    /\ s_exc = None


----------------------------------------------------------------------------
(***************************************************************************)
(* tools/date_filtered_serper.py, tools/brevo_tool.py,                     *)
(* tools/sendgrid_tool.py                                                  *)
(***************************************************************************)
MaxToolCalls == 2    \* bound: the _run calls explored

EnvVars == {"SERPER_API_KEY", "BREVO_API_KEY", "SENDGRID_API_KEY"}

\* A variable is unset (None), set to the empty string, or set to a key.
EnvValues == {None, Some(<<>>), Some(<<"key-1">>)}

\* A key check that only rejects the empty string.
KeyMissing_EmptyOnly(k) == k = Some(<<>>)

\* `not api_key` (date_filtered_serper.py line 49, brevo_tool.py line 30,
\* sendgrid_tool.py line 31): None or the empty string.
KeyMissing(k) == k = None \/ k = Some(<<>>)

NotSet(var) == <<"Error: ", var, " environment variable not set">>

ToolCalls == Len(tool_log)

\* search_crew.py line 55: DateFilteredSerperTool(months_back=8).
SerperMonthsBack == 8
\* date_filtered_serper.py line 33: the default n_results.
SerperResults == 10

Queries == {<<"Ann DE news">>, <<"Bob FR news">>}

\* What the search API may answer: a failed request, a body without
\* "organic", or a body with a list of items (fields an item lacks are absent).
Items == {[title |-> <<"T1">>, link |-> <<"u1">>, snippet |-> <<"x">>],
          [title |-> <<"T2">>]}
Responses ==
    {[kind |-> "request_exception"], [kind |-> "no_organic"]}
        \cup {[kind |-> "organic", items |-> is] : is \in SeqsUpTo(Items, 1)}

\* Lines 77-83: item.get(field, default).
ItemGet(item, field, default) ==
    IF field \in DOMAIN item THEN item[field] ELSE default
FormatItem(item) ==
    [title |-> ItemGet(item, "title", <<>>),
     link |-> ItemGet(item, "link", <<>>),
     snippet |-> ItemGet(item, "snippet", <<>>),
     date |-> ItemGet(item, "date", <<"Unknown">>)]

\* date_filtered_serper.py lines 33-37: __init__ reads the key.
SerperInit ==
    /\ serper = None
    /\ serper' = Some([api_key |-> env["SERPER_API_KEY"],
                       months_back |-> SerperMonthsBack,
                       n_results |-> SerperResults])
    /\ UNCHANGED <<env, http_log, send_log, tool_log>>
    /\ UNCHANGED <<searchVars, envVars, runVars, ioVars>>

\* date_filtered_serper.py lines 39-92: _run(search_query).
SerperRun(search_query) ==
    /\ serper # None
    /\ ToolCalls < MaxToolCalls
    /\ IF KeyMissing(serper[1].api_key)
       THEN /\ tool_log' = Append(tool_log,
                               <<"serper", "returned", NotSet("SERPER_API_KEY")>>)
            /\ UNCHANGED http_log
       ELSE LET payload == [q |-> search_query, num |-> serper[1].n_results,
                            tbs |-> <<"qdr:m", serper[1].months_back>>,
                            key |-> serper[1].api_key[1]]
            IN  /\ http_log' = Append(http_log, payload)
                /\ \E resp \in Responses :
                      LET found == IF resp.kind = "organic"
                                   THEN [i \in 1..Len(resp.items) |->
                                            FormatItem(resp.items[i])]
                                   ELSE <<>>
                          out == IF resp.kind = "request_exception"
                                 THEN <<"Search error: ", "request failed">>
                                 ELSE IF found = <<>>
                                 THEN <<"No results found for: ">> \o search_query
                                 ELSE <<"results", search_query, found>>
                      IN  tool_log' = Append(tool_log, <<"serper", "returned", out>>)
    /\ UNCHANGED <<env, serper, send_log>>
    /\ UNCHANGED <<searchVars, envVars, runVars, ioVars>>

\* What a send call of an email provider may do.
SendOutcomes == {"sent", "api_exception", "exception"}

Recipients == {<<"team@example.org">>}

\* brevo_tool.py lines 25-64: _run(to_email, subject, html_content).
BrevoRun(to_email, subject, html_content) ==
    /\ ToolCalls < MaxToolCalls
    /\ LET api_key == env["BREVO_API_KEY"]
       IN  IF KeyMissing(api_key)
           THEN /\ tool_log' = Append(tool_log,
                                   <<"brevo", "returned", NotSet("BREVO_API_KEY")>>)
                /\ UNCHANGED send_log
           ELSE /\ send_log' = Append(send_log,
                                   [via |-> "brevo", to |-> to_email,
                                    subject |-> subject, html |-> html_content])
                /\ \E how \in SendOutcomes :
                      tool_log' = Append(tool_log,
                          <<"brevo", "returned",
                            CASE how = "sent" ->
                                   <<"Email sent successfully!">> \o to_email \o subject
                              [] how = "api_exception" ->
                                   <<"Error sending email (API): ", "api error">>
                              [] OTHER -> <<"Error sending email: ", "error">> >>)
    /\ UNCHANGED <<env, serper, http_log>>
    /\ UNCHANGED <<searchVars, envVars, runVars, ioVars>>

\* sendgrid_tool.py lines 26-59: _run(to_email, subject, html_content).
SendGridRun(to_email, subject, html_content) ==
    /\ ToolCalls < MaxToolCalls
    /\ LET api_key == env["SENDGRID_API_KEY"]
       IN  IF KeyMissing(api_key)
           THEN /\ tool_log' = Append(tool_log,
                                   <<"sendgrid", "returned", NotSet("SENDGRID_API_KEY")>>)
                /\ UNCHANGED send_log
           ELSE /\ send_log' = Append(send_log,
                                   [via |-> "sendgrid", to |-> to_email,
                                    subject |-> subject, html |-> html_content])
                /\ \E how \in SendOutcomes \ {"api_exception"} :
                      tool_log' = Append(tool_log,
                          <<"sendgrid", "returned",
                            IF how = "sent"
                            THEN <<"Email sent successfully!">> \o to_email \o subject
                            ELSE <<"Error sending email: ", "error">> >>)
    /\ UNCHANGED <<env, serper, http_log>>
    /\ UNCHANGED <<searchVars, envVars, runVars, ioVars>>

ToolsIdle ==
    /\ env = [v \in EnvVars |-> None] /\ serper = None
    /\ http_log = <<>> /\ send_log = <<>> /\ tool_log = <<>>

----------------------------------------------------------------------------
(***************************************************************************)
(* main.py                                                                 *)
(***************************************************************************)
SEARCH_RESULTS_FILE == "output/search_results.json"
SUMMARY_REPORT_FILE == "output/summary_report.md"
Artifacts == {SEARCH_RESULTS_FILE, SUMMARY_REPORT_FILE}

\* Texts a summary report may hold.
ReportTexts == {<<"# Report", LF, "body">>, <<"# Report", CR, LF, "body", CR>>}

\* The crew outputs the runs of main.py are explored with.
RunOutputs(input) ==
    {Parsed(input.mp_name, <<Article1, Article2>>),
     Parsed(input.mp_name, <<>>), Unparsed}

\* Exceptions a call into the crew library may raise.
CrewExceptions ==
    {[type |-> "RuntimeError", msg |-> <<"crew failed">>],
     [type |-> "FileNotFoundError", msg |-> <<"No such file: config">>]}

Flags(a) == <<a.search_only, a.analyze_only, a.email_only>>
FlagCount(a) == Cardinality({i \in 1..3 : Flags(a)[i]})

\* A flag check that lets two flags through.
TooManyFlags_OnlyAll(a) == FlagCount(a) > 2

\* Lines 162-163.
TooManyFlags(a) == FlagCount(a) > 1

\* The state of a run as one record, for the operators below.
Cur == [pc |-> pc, inputs |-> inputs, search_results |-> search_results,
        analysis_kickoff |-> analysis_kickoff, email_kickoff |-> email_kickoff,
        events |-> events, exit_status |-> exit_status, raised |-> raised,
        files |-> files]

Commit(m) ==
    /\ pc' = m.pc
    /\ inputs' = m.inputs
    /\ search_results' = m.search_results
    /\ analysis_kickoff' = m.analysis_kickoff
    /\ email_kickoff' = m.email_kickoff
    /\ events' = m.events
    /\ exit_status' = m.exit_status
    /\ raised' = m.raised
    /\ files' = m.files

Emit(m, kind, what) == [m EXCEPT !.events = Append(@, <<kind, what>>)]
Say(m, msg) == Emit(m, "print", msg)

\* sys.exit(code): SystemExit leaves run().
SysExit(m, code) ==
    [m EXCEPT !.pc = "exited", !.exit_status = Some(code),
              !.raised = Some([type |-> "SystemExit", msg |-> <<"exit">>])]

\* An exception leaves run(): the interpreter ends with status 1.
Propagate(m, e) ==
    [m EXCEPT !.pc = "raised", !.exit_status = Some(1), !.raised = Some(e)]

\* run() returns.
Return(m) == [m EXCEPT !.pc = "done", !.exit_status = Some(0)]

FlagsError ==
    <<"Error: Only one of --search-only, --analyze-only, --email-only can be specified">>

\* Lines 75-78 and 86-89.
SearchResultsNotFound ==
    [type |-> "FileNotFoundError",
     msg |-> <<"Search results not found at ", SEARCH_RESULTS_FILE, LF,
               "Run 'crewai run' or 'crewai run -- --search-only' first.">>]
SummaryReportNotFound ==
    [type |-> "FileNotFoundError",
     msg |-> <<"Summary report not found at ", SUMMARY_REPORT_FILE, LF,
               "Run 'crewai run' or 'crewai run -- --analyze-only' first.">>]

\* open() of a file that is not there.
NoSuchFile(f) ==
    [type |-> "FileNotFoundError",
     msg |-> <<"[Errno 2] No such file or directory: ", f>>]

\* Lines 191-195: the handlers of run()'s try block.
Handle(m, e) ==
    IF e.type = "FileNotFoundError"
    THEN SysExit(Say(m, <<"Error: ">> \o e.msg), 1)
    ELSE Propagate(m, [type |-> "Exception",
                       msg |-> <<"An error occurred while running the crew: ">>
                                   \o e.msg])

\* A call that ends in [m, exc] (it raised) or [m, val] (it returned).
Raise(m, e) == [m |-> m, raises |-> TRUE, exc |-> e]
Value(m, v) == [m |-> m, raises |-> FALSE, val |-> v]

\* Lines 72-80.
load_search_results(m) ==
    IF m.files[SEARCH_RESULTS_FILE] = None
    THEN Raise(Emit(m, "exists_false", SEARCH_RESULTS_FILE), SearchResultsNotFound)
    ELSE LET v == JsonLoads(TextRead(m.files[SEARCH_RESULTS_FILE][1]))
             m1 == Emit(Emit(m, "exists_true", SEARCH_RESULTS_FILE),
                        "read", SEARCH_RESULTS_FILE)
         IN  IF v.ok THEN Value(m1, v.val)
             ELSE Raise(m1, [type |-> "JSONDecodeError",
                             msg |-> <<"Expecting value">>])

\* A load_summary_report without the exists() check of lines 85-89.
load_summary_report_Unchecked(m) ==
    IF m.files[SUMMARY_REPORT_FILE] = None
    THEN Raise(m, NoSuchFile(SUMMARY_REPORT_FILE))
    ELSE Value(Emit(m, "read", SUMMARY_REPORT_FILE),
               TextRead(m.files[SUMMARY_REPORT_FILE][1]))

\* Lines 83-91.
load_summary_report(m) ==
    IF m.files[SUMMARY_REPORT_FILE] = None
    THEN Raise(Emit(m, "exists_false", SUMMARY_REPORT_FILE), SummaryReportNotFound)
    ELSE Value(Emit(Emit(m, "exists_true", SUMMARY_REPORT_FILE),
                    "read", SUMMARY_REPORT_FILE),
               TextRead(m.files[SUMMARY_REPORT_FILE][1]))

\* Lines 32-49, with the mp_list the file holds.
get_inputs(mp_data) ==
    [mp_list |-> mp_data, today |-> NowStr, timeframe |-> DefaultTimeframe,
     team_email |-> <<"zampogna.ulysse@gmail.com">>,
     focus_areas |-> <<"european politics">>,
     date_range |-> <<"Jun 06 - Feb 01, 2025">>,
     search_results |-> None, mp_count |-> None, report_content |-> None]

\* Lines 96-105: run_phase1_search up to its call of run_search.
Phase1Call(m) ==
    [Emit(Say(m, <<"PHASE 1: Searching MPs...">>), "call", "run_search")
        EXCEPT !.pc = "searching"]

\* A Phase3Call that kicks the email crew off without the report it read.
Phase3Call_NoReport(m) ==
    LET report == load_summary_report(Say(m, <<"PHASE 3: Sending email...">>))
    IN  IF report.raises THEN Handle(report.m, report.exc)
        ELSE [Emit(report.m, "call", "email_crew.kickoff")
                EXCEPT !.pc = "emailing", !.email_kickoff = report.m.inputs]

\* Lines 139-147: run_phase3_email up to the kickoff of the email crew.
Phase3Call(m) ==
    LET report == load_summary_report(Say(m, <<"PHASE 3: Sending email...">>))
    IN  IF report.raises THEN Handle(report.m, report.exc)
        ELSE LET with == [report.m.inputs[1] EXCEPT
                             !.report_content = Some(report.val)]
             IN  [Emit(report.m, "call", "email_crew.kickoff")
                    EXCEPT !.pc = "emailing", !.inputs = Some(with),
                           !.email_kickoff = Some(with)]

HasKey(v, k) == "dict" \in DOMAIN v /\ \E i \in 1..Len(v.dict) : v.dict[i][1] = k

\* Lines 122-129: run_phase2_analysis up to the kickoff of the analysis crew.
Phase2Call(m, sr) ==
    LET m1 == Say(m, <<"PHASE 2: Running analysis pipeline...">>)
    IN  IF ~HasKey(sr, <<"mp_count">>)
        THEN Handle(m1, [type |-> "KeyError", msg |-> <<"'mp_count'">>])
        ELSE LET with == [m1.inputs[1] EXCEPT
                             !.search_results = Some(sr),
                             !.mp_count = Some(Get(sr, <<"mp_count">>))]
             IN  [Emit(m1, "call", "analysis_crew.kickoff")
                    EXCEPT !.pc = "analysing", !.inputs = Some(with),
                           !.analysis_kickoff = Some(with)]

\* run_search (lines 92-112) as one call: the dict run_search_async returns
\* for the crew outputs rs, or the exception its aggregation loop raises.
RunSearchRaises(rs) == \E i \in 1..Len(rs) : AggregateRaises(rs[i])
RunSearchValue(mps, tf, td, rs) ==
    SearchResultDict(Flatten([i \in 1..Len(rs) |-> RecordsOf(rs[i])]),
                     mps, DefaultToday(Some(td)), tf)

\* A Phase1Save that leaves search_results.json alone.
Phase1Save_NoWrite(m, sr, sep) ==
    Say([Emit(m, "return", "run_search") EXCEPT !.search_results = Some(sr)],
        <<"Phase 1 complete!">>)

\* Lines 107-117: run_phase1_search once run_search returned sr.
Phase1Save(m, sr, sep) ==
    LET text == TextWrite(JsonDumps(sr, 0), sep)
        m1 == Emit(Emit(m, "return", "run_search"), "write", SEARCH_RESULTS_FILE)
        m2 == [m1 EXCEPT !.files[SEARCH_RESULTS_FILE] = Some(text),
                         !.search_results = Some(sr)]
    IN  Say(m2, <<"Phase 1 complete!">>)

\* Lines 186-189.
AllPhasesComplete(m) == Return(Say(m, <<"All phases complete!">>))

\* An AfterPhase1 that falls through into phase 2 whatever the flags.
AfterPhase1_FallThrough(m, sr, a) == Phase2Call(m, sr)

\* Lines 168-170 and 183-184: what run() does once phase 1 returned.
AfterPhase1(m, sr, a) == IF a.search_only THEN Return(m) ELSE Phase2Call(m, sr)

\* Lines 172-175 and 184-185: what run() does once phase 2 returned.
AfterPhase2(m, a) == IF a.analyze_only THEN Return(m) ELSE Phase3Call(m)

\* Lines 177-179 and 185-189: what run() does once phase 3 returned.
AfterPhase3(m, a) == IF a.email_only THEN Return(m) ELSE AllPhasesComplete(m)

\* Lines 157-185: run() from its start to its first call into a crew.
RunStart ==
    /\ pc = "start"
    /\ IF mp_file.state # "ok"
       THEN Commit(Propagate(Cur, IF mp_file.state = "missing"
                                  THEN NoSuchFile("knowledge/mp_list.json")
                                  ELSE [type |-> "JSONDecodeError",
                                        msg |-> <<"Expecting value">>]))
       ELSE LET m == [Cur EXCEPT !.inputs = Some(get_inputs(mp_file.data))]
            IN  IF TooManyFlags(args) THEN Commit(SysExit(Say(m, FlagsError), 1))
                ELSE IF args.search_only THEN Commit(Phase1Call(m))
                ELSE IF args.analyze_only THEN
                    LET loaded == load_search_results(m)
                    IN  IF loaded.raises
                        THEN Commit(Handle(loaded.m, loaded.exc))
                        ELSE Commit(Phase2Call(
                                 [loaded.m EXCEPT !.search_results = Some(loaded.val)],
                                 loaded.val))
                ELSE IF args.email_only THEN Commit(Phase3Call(m))
                ELSE Commit(Phase1Call(m))
    /\ UNCHANGED <<args, mp_file, linesep>>
    /\ UNCHANGED <<searchVars, ioVars, toolVars>>

\* All the ways the crew executions of a search may come back.
RECURSIVE OutputLists(_, _)
OutputLists(ins, k) ==
    IF k = 0 THEN {<<>>}
    ELSE {Append(rs, r) : rs \in OutputLists(ins, k - 1), r \in RunOutputs(ins[k])}

\* run_search returns or raises out of its aggregation; run() goes on to the
\* end of phase 1 and, in a full run, into phase 2 (lines 183-184).
SearchReturns ==
    /\ pc = "searching"
    /\ LET in == inputs[1]
           ins == BuildInputs(in.mp_list, in.timeframe, in.today)
       IN  \E rs \in OutputLists(ins, Len(ins)) :
              IF RunSearchRaises(rs)
              THEN Commit(Handle(Emit(Cur, "raise", "run_search"),
                                 [type |-> "AttributeError",
                                  msg |-> <<"'NoneType' object has no attribute 'articles'">>]))
              ELSE LET sr == RunSearchValue(in.mp_list, in.timeframe, in.today, rs)
                       m == Phase1Save(Cur, sr, linesep)
                   IN  Commit(AfterPhase1(m, sr, args))
    /\ UNCHANGED <<args, mp_file, linesep>>
    /\ UNCHANGED <<searchVars, ioVars, toolVars>>

\* A crew execution of the search raises.
SearchRaises ==
    /\ pc = "searching"
    /\ \E e \in CrewExceptions : Commit(Handle(Emit(Cur, "raise", "run_search"), e))
    /\ UNCHANGED <<args, mp_file, linesep>>
    /\ UNCHANGED <<searchVars, ioVars, toolVars>>

\* The analysis crew returns, having written its report or not (lines
\* 131-134); in a full run run() goes on into phase 3 (line 185).
AnalysisReturns ==
    /\ pc = "analysing"
    /\ \E written \in {None} \cup {Some(t) : t \in ReportTexts} :
          LET m0 == IF written = None THEN Cur
                    ELSE [Emit(Cur, "crew_write", SUMMARY_REPORT_FILE)
                             EXCEPT !.files[SUMMARY_REPORT_FILE] = written]
              m == Say(Emit(m0, "return", "analysis_crew.kickoff"),
                       <<"Phase 2 complete!">>)
          IN  Commit(AfterPhase2(m, args))
    /\ UNCHANGED <<args, mp_file, linesep>>
    /\ UNCHANGED <<searchVars, ioVars, toolVars>>

AnalysisRaises ==
    /\ pc = "analysing"
    /\ \E e \in CrewExceptions :
          Commit(Handle(Emit(Cur, "raise", "analysis_crew.kickoff"), e))
    /\ UNCHANGED <<args, mp_file, linesep>>
    /\ UNCHANGED <<searchVars, ioVars, toolVars>>

\* The email the distributor agent sends when it uses its tool.
EmailSubject == <<"MP news">>
EmailHtml == <<"<h1>Report</h1>">>

\* crew.py line 93: while the email crew runs, its agent calls
\* BrevoEmailTool._run, any number of times.
EmailToolCall ==
    /\ pc = "emailing"
    /\ \E to \in Recipients : BrevoRun(to, EmailSubject, EmailHtml)

\* An EmailReturns that fails the run when the tool's last result is an error.
EmailReturns_ChecksTool ==
    /\ pc = "emailing"
    /\ LET m == Emit(Cur, "return", "email_crew.kickoff")
           failed == /\ tool_log # <<>>
                     /\ tool_log[Len(tool_log)][3][1] \in
                            {"Error: ", "Error sending email (API): ",
                             "Error sending email: "}
       IN  IF failed
           THEN Commit(Handle(m, [type |-> "RuntimeError",
                                  msg |-> <<"email not sent">>]))
           ELSE Commit(AfterPhase3(
                    Say(Say(m, <<"Phase 3 complete!">>),
                        <<"  - Email sent successfully">>), args))
    /\ UNCHANGED <<args, mp_file, linesep>>
    /\ UNCHANGED <<searchVars, ioVars, toolVars>>

\* The email crew returns (lines 149-152); a full run ends (lines 187-189).
EmailReturns ==
    /\ pc = "emailing"
    /\ LET m == Say(Say(Emit(Cur, "return", "email_crew.kickoff"),
                        <<"Phase 3 complete!">>),
                    <<"  - Email sent successfully">>)
       IN  Commit(AfterPhase3(m, args))
    /\ UNCHANGED <<args, mp_file, linesep>>
    /\ UNCHANGED <<searchVars, ioVars, toolVars>>

EmailRaises ==
    /\ pc = "emailing"
    /\ \E e \in CrewExceptions :
          Commit(Handle(Emit(Cur, "raise", "email_crew.kickoff"), e))
    /\ UNCHANGED <<args, mp_file, linesep>>
    /\ UNCHANGED <<searchVars, ioVars, toolVars>>

\* The lists knowledge/mp_list.json is explored with: MP1, MP2, MP1, ...
Roster(n) == [i \in 1..n |-> IF i % 2 = 1 THEN MP1 ELSE MP2]

\* A search_results.json left by an earlier run.
EarlierResults ==
    SearchResultDict(<<MpNewsResearchRecord([mp_name |-> MP2.name], Article2)>>,
                     <<MP1, MP2>>, TodayArg, DefaultTimeframe)

IoIdle == saved = None /\ loaded_results = None /\ loaded_report = None

RunIdle ==
    /\ pc = "idle" /\ inputs = None /\ search_results = None
    /\ analysis_kickoff = None /\ email_kickoff = None /\ events = <<>>
    /\ exit_status = None /\ raised = None

EnvIdle ==
    /\ args = [search_only |-> FALSE, analyze_only |-> FALSE, email_only |-> FALSE]
    /\ mp_file = [state |-> "missing"]
    /\ linesep = <<LF>>
    /\ files = [f \in Artifacts |-> None]

Init ==
    /\ args \in [search_only : BOOLEAN, analyze_only : BOOLEAN, email_only : BOOLEAN]
    /\ mp_file \in {[state |-> "missing"], [state |-> "invalid"]}
                      \cup {[state |-> "ok", data |-> Roster(n)] : n \in 0..MaxMPs}
    /\ linesep = <<LF>>
    /\ \E sr \in {None, Some(TextWrite(JsonDumps(EarlierResults, 0), <<LF>>)),
                  Some(<<"{", "}">>), Some(<<"{">>)},
          md \in {None} \cup {Some(t) : t \in ReportTexts} :
          files = [f \in Artifacts |-> IF f = SEARCH_RESULTS_FILE THEN sr ELSE md]
    /\ pc = "start" /\ inputs = None /\ search_results = None
    /\ analysis_kickoff = None /\ email_kickoff = None /\ events = <<>>
    /\ exit_status = None /\ raised = None
    /\ env \in {[v \in EnvVars |-> IF v = "BREVO_API_KEY" THEN k ELSE None] :
                   k \in EnvValues}
    /\ serper = None /\ http_log = <<>> /\ send_log = <<>> /\ tool_log = <<>>
    /\ SearchIdle /\ IoIdle

Next ==
    \/ RunStart
    \/ SearchReturns
    \/ SearchRaises
    \/ AnalysisReturns
    \/ AnalysisRaises
    \/ EmailToolCall
    \/ EmailReturns
    \/ EmailRaises

Spec == Init /\ [][Next]_vars

\* run_search_async on its own.
InitSearch ==
    /\ mp_list \in SeqsUpTo(MPs, MaxMPs)
    /\ timeframe = DefaultTimeframe
    /\ today \in {None, Some(TodayArg)}
    /\ max_concurrency \in (1..MaxConc) \cup {PhaseOneConcurrency}
    /\ s_pc = "init"
    /\ inputs_list = <<>> /\ max_rpm = None /\ exec = <<>> /\ outs = <<>>
    /\ results = <<>> /\ idx = 0 /\ research_list = <<>> /\ s_log = <<>>
    /\ s_ret = None /\ s_exc = None
    /\ EnvIdle /\ RunIdle /\ IoIdle /\ ToolsIdle

NextSearch ==
    \/ SearchStart
    \/ \E i \in DOMAIN exec : CrewStart(i)
    \/ \E i \in DOMAIN exec : CrewFinish(i)
    \/ \E i \in DOMAIN exec : CrewFail(i)
    \/ SearchGathered
    \/ AggregateNext
    \/ SearchReturn

SpecSearch == InitSearch /\ [][NextSearch]_vars

\* The tools on their own, under every setting of the environment.
InitTools ==
    /\ env \in [EnvVars -> EnvValues]
    /\ serper = None /\ http_log = <<>> /\ send_log = <<>> /\ tool_log = <<>>
    /\ SearchIdle /\ EnvIdle /\ RunIdle /\ IoIdle

NextTools ==
    \/ SerperInit
    \/ \E q \in Queries : SerperRun(q)
    \/ \E to \in Recipients : BrevoRun(to, <<"MP news">>, <<"<h1>Report</h1>">>)
    \/ \E to \in Recipients : SendGridRun(to, <<"MP news">>, <<"<h1>Report</h1>">>)

SpecTools == InitTools /\ [][NextTools]_vars

\* The artifacts on their own: search_results.json written once by
\* run_phase1_search and read back, summary_report.md stored and read back.
MaxRecords == 2      \* bound: longest research_list written
MaxTextLen == 2      \* bound: longest report text stored

IoRecords ==
    {MpNewsResearchRecord([mp_name |-> MP1.name], Article1),
     MpNewsResearchRecord([mp_name |-> MP1.name], Article2),
     MpNewsResearchRecord([mp_name |-> OtherName], Article2)}
IoDicts ==
    {SearchResultDict(rl, Roster(n), NowStr, DefaultTimeframe) :
        rl \in SeqsUpTo(IoRecords, MaxRecords), n \in {0, MaxMPs, 12}}
IoTexts == SeqsUpTo({"a", LF, CR}, MaxTextLen)

\* main.py lines 107-110: run_phase1_search saves the dict sr.
IoSave(sr) ==
    /\ saved = None
    /\ files' = Phase1Save(Cur, sr, linesep).files
    /\ saved' = Some(sr)
    /\ loaded_results' = None
    /\ UNCHANGED <<args, mp_file, linesep, loaded_report>>
    /\ UNCHANGED <<searchVars, runVars, toolVars>>

\* main.py lines 72-80: load_search_results().
IoLoadResults ==
    /\ LET r == load_search_results(Cur)
       IN  loaded_results' = Some([raises |-> r.raises,
                                   val |-> IF r.raises THEN PyStr(<<r.exc.type>>)
                                           ELSE r.val])
    /\ UNCHANGED <<saved, loaded_report>>
    /\ UNCHANGED <<searchVars, envVars, runVars, toolVars>>

\* The analysis crew stores the text t in summary_report.md.
IoStoreReport(t) ==
    /\ files' = [files EXCEPT ![SUMMARY_REPORT_FILE] = Some(t)]
    /\ loaded_report' = None
    /\ UNCHANGED <<args, mp_file, linesep, saved, loaded_results>>
    /\ UNCHANGED <<searchVars, runVars, toolVars>>

\* main.py lines 83-91: load_summary_report().
IoLoadReport ==
    /\ files[SUMMARY_REPORT_FILE] # None
    /\ loaded_report' = Some(load_summary_report(Cur).val)
    /\ UNCHANGED <<saved, loaded_results>>
    /\ UNCHANGED <<searchVars, envVars, runVars, toolVars>>

InitIO ==
    /\ linesep \in {<<LF>>, <<CR, LF>>}
    /\ args = [search_only |-> FALSE, analyze_only |-> FALSE, email_only |-> FALSE]
    /\ mp_file = [state |-> "missing"]
    /\ files = [f \in Artifacts |-> None]
    /\ IoIdle /\ SearchIdle /\ RunIdle /\ ToolsIdle

NextIO ==
    \/ \E sr \in IoDicts : IoSave(sr)
    \/ IoLoadResults
    \/ \E t \in IoTexts : IoStoreReport(t)
    \/ IoLoadReport

SpecIO == InitIO /\ [][NextIO]_vars

----------------------------------------------------------------------------
(***************************************************************************)
(* Properties of run_search_async                                          *)
(***************************************************************************)

\* The results the aggregation loop has been through.
Consumed == IF s_pc \in {"aggregating", "returned"} THEN idx - 1 ELSE 0

\* The <<mp_name, article>> pairs of the parsed results among the first k.
RECURSIVE Discovered(_)
Discovered(k) ==
    IF k = 0 THEN <<>>
    ELSE Discovered(k - 1) \o
         (IF results[k].pydantic # None
          THEN LET p == results[k].pydantic[1]
               IN  [j \in 1..Len(p.articles) |-> <<p.mp_name, p.articles[j]>>]
          ELSE <<>>)

RECURSIVE SumArticles(_)
SumArticles(k) ==
    IF k = 0 THEN 0
    ELSE SumArticles(k - 1) +
         (IF results[k].pydantic # None
          THEN Len(results[k].pydantic[1].articles) ELSE 0)

\* C5: the aggregation produces exactly one record per discovered article:
\* throughout the loop and in the returned dict, research_list has as many
\* records as the results gone through have articles, in the same order, and
\* record k carries the mp_name of its result and the title, url, publication
\* date, source and summary of its article.
C5_OneRecordPerArticle ==
    s_pc \in {"aggregating", "returned"} =>
        LET found == Discovered(Consumed)
        IN  /\ Len(research_list) = SumArticles(Consumed)
            /\ Len(research_list) = Len(found)
            /\ \A k \in 1..Len(found) :
                  LET rec == research_list[k]
                      art == found[k][2]
                  IN  /\ Len(rec.dict) = 6
                      /\ Get(rec, <<"mp_name">>) = PyStr(found[k][1])
                      /\ Get(rec, <<"article_title">>) = PyStr(art.title)
                      /\ Get(rec, <<"article_url">>) = PyStr(art.url)
                      /\ Get(rec, <<"publication_date">>) = PyStr(art.publication_date)
                      /\ Get(rec, <<"source_name">>) = PyStr(art.source)
                      /\ Get(rec, <<"article_summary">>) = PyStr(art.summary)
            /\ (s_pc = "returned" =>
                  /\ Consumed = Len(results)
                  /\ Get(s_ret[1], <<"research_list">>) = PyList(research_list))

\* C5 witness: a search over two MPs returned, both results parsed, one of
\* them with a repeated article.
C5_Witness ==
    /\ s_pc = "returned"
    /\ Len(results) = 2
    /\ results[1] = Parsed(OtherName, <<Article2, Article2>>)
    /\ results[2] = Parsed(mp_list[2].name, <<Article1, Article2>>)
    /\ Len(research_list) = 4

\* C6: at no moment are more than max_concurrency executions in flight.
C6_ConcurrencyCeiling == Cardinality(InFlight) <= max_concurrency

\* C7: exactly one search input per entry of mp_list is submitted, in the
\* same order, carrying that entry's name and country and the shared
\* timeframe and today; there is one execution per input, and once the
\* searches are gathered there is one result per entry of mp_list.
C7_CompleteCoverage ==
    s_pc # "init" =>
        /\ Len(inputs_list) = Len(mp_list)
        /\ \A i \in 1..Len(mp_list) :
              /\ inputs_list[i].mp_name = mp_list[i].name
              /\ inputs_list[i].mp_country = mp_list[i].country
              /\ inputs_list[i].timeframe = timeframe
              /\ inputs_list[i].today = today[1]
        /\ DOMAIN exec = 1..Len(mp_list)
        /\ (s_pc \in {"aggregating", "returned"} =>
              /\ Len(results) = Len(mp_list)
              /\ \A i \in DOMAIN exec : exec[i] = "done")

\* C7 witness: a list longer than max_concurrency was searched to the end.
C7_Witness ==
    /\ s_pc = "returned"
    /\ Len(mp_list) = 2
    /\ mp_list[1] # mp_list[2]
    /\ max_concurrency = 1

\* Every execution came back and the await at line 59 returned.
Gathered ==
    \/ s_pc \in {"aggregating", "returned"}
    \/ s_pc = "raised" /\ s_exc = Some("AttributeError")

\* C10: when a result comes back unparsed (pydantic None or absent, raw text
\* only), run_search_async does not raise, adds no record for it, and returns
\* every article of the other results.
C10_ParseFailureSkipped ==
    (Gathered /\ \E i \in 1..Len(results) :
                    /\ results[i].truthy /\ results[i].has_raw
                    /\ results[i].pydantic = None
                    /\ \A j \in 1..Len(results) \ {i} :
                          results[j].pydantic # None) =>
        /\ s_exc = None
        /\ (s_pc = "returned" =>
              Len(research_list) = SumArticles(Len(results)))

\* C13: run_search_async aggregates only once every search has finished, in
\* the order of the results: while an execution is pending or running there
\* are no results, no record and no return value, and in the returned
\* research_list the records of result i come after those of the results
\* before it, article j of result i at place j among them.
C13_AggregateAfterAllFinished ==
    /\ (\E i \in DOMAIN exec : exec[i] # "done") =>
          /\ results = <<>> /\ research_list = <<>> /\ s_ret = None
          /\ s_pc \in {"awaiting", "raised"}
    /\ s_pc = "returned" =>
          /\ Len(research_list) = SumArticles(Len(results))
          /\ \A i \in 1..Len(results) :
                results[i].pydantic # None =>
                    LET p == results[i].pydantic[1]
                    IN  \A j \in 1..Len(p.articles) :
                           LET rec == research_list[SumArticles(i - 1) + j]
                           IN  /\ Get(rec, <<"mp_name">>) = PyStr(p.mp_name)
                               /\ Get(rec, <<"article_title">>) =
                                      PyStr(p.articles[j].title)
                               /\ Get(rec, <<"article_url">>) =
                                      PyStr(p.articles[j].url)

\* C13 witness: a search over two MPs returned, the first result with two
\* different articles and the second with articles of its own.
C13_Witness ==
    /\ s_pc = "returned"
    /\ Len(results) = 2
    /\ results[1] = Parsed(mp_list[1].name, <<Article1, Article2>>)
    /\ results[2].pydantic # None
    /\ Len(results[2].pydantic[1].articles) > 0
    /\ Len(research_list) > 2

----------------------------------------------------------------------------
(***************************************************************************)
(* Properties of run()                                                     *)
(***************************************************************************)
Has(kind, what) ==
    \E i \in 1..Len(events) : events[i][1] = kind /\ events[i][2] = what
Count(kind, what) ==
    Cardinality({i \in 1..Len(events) : events[i][1] = kind /\ events[i][2] = what})
Before(kind1, what1, i) ==
    \E j \in 1..(i - 1) : events[j][1] = kind1 /\ events[j][2] = what1
Printed(msg) == Has("print", msg)
Calls == {"run_search", "analysis_crew.kickoff", "email_crew.kickoff"}
Ended == pc \in {"done", "exited", "raised"}

\* C1: with more than one flag set the run is rejected: the process ends with
\* status 1 (after the flags error, once the inputs were loaded), no phase is
\* started and neither artifact is looked for, read or written.
C1_MultipleFlagsRejected ==
    FlagCount(args) > 1 =>
        /\ \A i \in 1..Len(events) : events[i][1] = "print"
        /\ \A c \in Calls : ~Has("call", c)
        /\ pc \in {"start", "exited", "raised"}
        /\ (pc # "start" => exit_status = Some(1))
        /\ (pc # "start" /\ mp_file.state = "ok" =>
               pc = "exited" /\ events = <<<<"print", FlagsError>>>>)
        /\ search_results = None /\ analysis_kickoff = None /\ email_kickoff = None

\* C1 witness: a run with two flags was rejected while both artifacts exist.
C1_Witness ==
    /\ args = [search_only |-> TRUE, analyze_only |-> TRUE, email_only |-> FALSE]
    /\ pc = "exited" /\ exit_status = Some(1)
    /\ \A f \in Artifacts : files[f] # None

\* C2: with no flag the three phases run in the order search, analysis, email,
\* each started at most once and, in a run that returns, exactly once; the
\* analysis starts only after run_search returned and search_results.json was
\* written, the email only after the analysis returned; once a phase raised
\* nothing is started any more, and "All phases complete!" is printed only by
\* a run in which all three phases returned.
C2_FullRunInOrder ==
    FlagCount(args) = 0 =>
        /\ \A c \in Calls : Count("call", c) <= 1
        /\ \A i \in 1..Len(events) :
              /\ (events[i][1] = "call" /\ events[i][2] = "analysis_crew.kickoff") =>
                    /\ \E j \in 1..(i - 1) :
                          /\ events[j][1] = "write" /\ events[j][2] = SEARCH_RESULTS_FILE
                          /\ Before("return", "run_search", j)
                    /\ files[SEARCH_RESULTS_FILE] # None
              /\ (events[i][1] = "call" /\ events[i][2] = "email_crew.kickoff") =>
                    Before("return", "analysis_crew.kickoff", i)
              /\ (events[i][1] = "return" /\ events[i][2] = "run_search") =>
                    Before("call", "run_search", i)
              /\ events[i][1] = "raise" =>
                    \A j \in (i + 1)..Len(events) : events[j][1] = "print"
        /\ ((\E i \in 1..Len(events) : events[i][1] = "raise") =>
               Ended /\ pc # "done" /\ ~Printed(<<"All phases complete!">>))
        /\ (Printed(<<"All phases complete!">>) <=> pc = "done")
        /\ (pc = "done" =>
               \A c \in Calls : Count("call", c) = 1 /\ Count("return", c) = 1)

\* C2 witness: a full run over two MPs went through all three phases.
C2_Witness ==
    /\ FlagCount(args) = 0 /\ pc = "done"
    /\ Len(inputs[1].mp_list) = 2
    /\ Printed(<<"All phases complete!">>)

\* C3: with exactly one flag only the selected phase runs: --search-only runs
\* the search and writes search_results.json and starts neither crew;
\* --analyze-only runs no search, does not write search_results.json and does
\* not start the email crew; --email-only runs neither the search nor the
\* analysis crew and no artifact is written.
C3_OnlySelectedPhase ==
    FlagCount(args) = 1 =>
        /\ args.search_only =>
              /\ ~Has("call", "analysis_crew.kickoff")
              /\ ~Has("call", "email_crew.kickoff")
              /\ analysis_kickoff = None /\ email_kickoff = None
              /\ ~Has("crew_write", SUMMARY_REPORT_FILE)
              /\ (pc = "done" =>
                    /\ Count("call", "run_search") = 1
                    /\ Count("write", SEARCH_RESULTS_FILE) = 1
                    /\ files[SEARCH_RESULTS_FILE] # None)
        /\ args.analyze_only =>
              /\ ~Has("call", "run_search")
              /\ ~Has("write", SEARCH_RESULTS_FILE)
              /\ ~Has("call", "email_crew.kickoff")
              /\ email_kickoff = None
              /\ (pc = "done" => Count("call", "analysis_crew.kickoff") = 1)
        /\ args.email_only =>
              /\ ~Has("call", "run_search")
              /\ ~Has("call", "analysis_crew.kickoff")
              /\ analysis_kickoff = None
              /\ \A f \in Artifacts : ~Has("write", f) /\ ~Has("crew_write", f)
              /\ (pc = "done" => Count("call", "email_crew.kickoff") = 1)

\* C3 witness: a --search-only run returned after writing its results.
C3_Witness ==
    /\ args = [search_only |-> TRUE, analyze_only |-> FALSE, email_only |-> FALSE]
    /\ pc = "done"
    /\ Has("write", SEARCH_RESULTS_FILE)
    /\ Len(inputs[1].mp_list) = 2

\* The run stopped with the instruction `hint` about the missing file f and
\* without the call c.
StoppedWithInstruction(f, lead, hint, c) ==
    /\ pc = "exited" /\ exit_status = Some(1)
    /\ Printed(<<"Error: ", lead, f, LF, hint>>)
    /\ ~Has("call", c)
    /\ ~Has("read", f)

\* C4: when the artifact a phase needs is missing the run stops with an error
\* that names the file and says which phase to run first, with exit status 1,
\* and the crew of that phase is not kicked off: --analyze-only without
\* search_results.json, --email-only and phase 3 of a full run without
\* summary_report.md.
C4_MissingArtifactInstruction ==
    /\ (/\ FlagCount(args) = 1 /\ args.analyze_only
        /\ mp_file.state = "ok" /\ pc # "start"
        /\ files[SEARCH_RESULTS_FILE] = None) =>
            StoppedWithInstruction(SEARCH_RESULTS_FILE,
                "Search results not found at ",
                "Run 'crewai run' or 'crewai run -- --search-only' first.",
                "analysis_crew.kickoff")
    /\ (/\ FlagCount(args) = 1 /\ args.email_only
        /\ mp_file.state = "ok" /\ pc # "start"
        /\ files[SUMMARY_REPORT_FILE] = None) =>
            StoppedWithInstruction(SUMMARY_REPORT_FILE,
                "Summary report not found at ",
                "Run 'crewai run' or 'crewai run -- --analyze-only' first.",
                "email_crew.kickoff")
    /\ (/\ FlagCount(args) = 0
        /\ Has("return", "analysis_crew.kickoff")
        /\ files[SUMMARY_REPORT_FILE] = None) =>
            StoppedWithInstruction(SUMMARY_REPORT_FILE,
                "Summary report not found at ",
                "Run 'crewai run' or 'crewai run -- --analyze-only' first.",
                "email_crew.kickoff")
    /\ (Has("call", "analysis_crew.kickoff") => files[SEARCH_RESULTS_FILE] # None)
    /\ (Has("call", "email_crew.kickoff") => files[SUMMARY_REPORT_FILE] # None)

\* C4 witness: in a full run the analysis returned without leaving a report
\* and the run stopped before the email.
C4_Witness ==
    /\ FlagCount(args) = 0
    /\ Has("return", "analysis_crew.kickoff")
    /\ files[SUMMARY_REPORT_FILE] = None
    /\ pc = "exited"

\* The run ended on the handler of lines 191-193 for a missing artifact.
MissingArtifactStop ==
    /\ pc = "exited" /\ exit_status = Some(1)
    /\ \/ Printed(<<"Error: ">> \o SearchResultsNotFound.msg)
       \/ Printed(<<"Error: ">> \o SummaryReportNotFound.msg)

\* The run ended on the handler of lines 194-195.
WrappedAndReRaised ==
    /\ pc = "raised"
    /\ raised # None
    /\ raised[1].type = "Exception"
    /\ raised[1].msg[1] = "An error occurred while running the crew: "

\* C11: a run() that fails at any step (loading the inputs, search, analysis,
\* email) for another reason than a missing artifact ends with an Exception
\* whose message starts with "An error occurred while running the crew:",
\* never with the original exception.  A missing knowledge/mp_list.json is
\* left aside as a file-not-found.
C11_OtherExceptionsWrapped ==
    (/\ pc \in {"raised", "exited"}
     /\ ~Printed(FlagsError)
     /\ mp_file.state # "missing") =>
        MissingArtifactStop \/ WrappedAndReRaised

\* The file f was read before the call c.
ReadBeforeCall(f, c) ==
    \E i \in 1..Len(events) :
        /\ events[i][1] = "call" /\ events[i][2] = c
        /\ Before("read", f, i)

\* What a read of search_results.json yields now.
StoredResults == JsonLoads(TextRead(files[SEARCH_RESULTS_FILE][1]))

\* The analysis crew was handed what search_results.json holds.
AnalysisGotStoredResults ==
    /\ analysis_kickoff # None
    /\ files[SEARCH_RESULTS_FILE] # None
    /\ StoredResults.ok
    /\ analysis_kickoff[1].search_results = Some(StoredResults.val)
    /\ analysis_kickoff[1].mp_count = Some(Get(StoredResults.val, <<"mp_count">>))

\* The email crew was handed what a read of summary_report.md yields.
EmailGotStoredReport ==
    /\ email_kickoff # None
    /\ files[SUMMARY_REPORT_FILE] # None
    /\ email_kickoff[1].report_content =
           Some(TextRead(files[SUMMARY_REPORT_FILE][1]))
    /\ ReadBeforeCall(SUMMARY_REPORT_FILE, "email_crew.kickoff")

\* C12, as claimed: in every mode, the full run included, the analysis crew
\* is handed the search results read from search_results.json and the email
\* crew the report read from summary_report.md.
C12_EveryPhaseReadsArtifact ==
    /\ Has("call", "analysis_crew.kickoff") =>
          /\ AnalysisGotStoredResults
          /\ ReadBeforeCall(SEARCH_RESULTS_FILE, "analysis_crew.kickoff")
    /\ Has("call", "email_crew.kickoff") => EmailGotStoredReport

\* C12, amended: the email crew is handed the report read from
\* summary_report.md in every mode; the analysis crew is handed the search
\* results read from search_results.json with --analyze-only, and in a full
\* run the dict run_search returned, which is what search_results.json holds
\* since phase 1 wrote it, the file not being read.
C12_ArtifactsHandedOver ==
    /\ Has("call", "analysis_crew.kickoff") =>
          /\ AnalysisGotStoredResults
          /\ (args.analyze_only =>
                 ReadBeforeCall(SEARCH_RESULTS_FILE, "analysis_crew.kickoff"))
          /\ (FlagCount(args) = 0 =>
                 /\ ~Has("read", SEARCH_RESULTS_FILE)
                 /\ Has("write", SEARCH_RESULTS_FILE)
                 /\ analysis_kickoff[1].search_results = search_results)
    /\ Has("call", "email_crew.kickoff") => EmailGotStoredReport

\* C12 witness: a full run that found articles handed the written results to
\* the analysis crew and the report it read to the email crew.
C12_Witness ==
    /\ FlagCount(args) = 0 /\ pc = "done"
    /\ Has("call", "analysis_crew.kickoff") /\ Has("call", "email_crew.kickoff")
    /\ Get(search_results[1], <<"research_list">>) # PyList(<<>>)
    /\ email_kickoff[1].report_content # None
    /\ CR \in {files[SUMMARY_REPORT_FILE][1][i] :
                  i \in 1..Len(files[SUMMARY_REPORT_FILE][1])}

\* The results BrevoEmailTool._run returned during the run.
ToolResults == [i \in 1..Len(tool_log) |-> tool_log[i][3]]
ToolReportedError(i) ==
    ToolResults[i][1] \in {"Error: ", "Error sending email (API): ",
                           "Error sending email: "}
EmailDelivered ==
    \E i \in 1..Len(tool_log) : ToolResults[i][1] = "Email sent successfully!"

\* C14: phase 3 reports success whatever the send did: every call of the
\* email tool returns a string, and once the email crew's kickoff returned
\* run_phase3_email has printed "Email sent successfully" and run() ends
\* without exit status 1 and without an exception, also when the tool returned
\* an error string and delivered nothing.
C14_SuccessWhateverTheSend ==
    /\ \A i \in 1..Len(tool_log) :
          /\ tool_log[i][2] = "returned"
          /\ ToolReportedError(i) \/ ToolResults[i][1] = "Email sent successfully!"
          /\ (KeyMissing(env["BREVO_API_KEY"]) =>
                 ToolResults[i] = NotSet("BREVO_API_KEY"))
    /\ (KeyMissing(env["BREVO_API_KEY"]) => send_log = <<>>)
    /\ Has("return", "email_crew.kickoff") =>
          /\ Printed(<<"  - Email sent successfully">>)
          /\ pc = "done"
          /\ exit_status = Some(0)
          /\ raised = None

\* C14 witness: an email-only run without BREVO_API_KEY ended as a success
\* although the tool returned its error and no send was attempted.
C14_Witness ==
    /\ args = [search_only |-> FALSE, analyze_only |-> FALSE, email_only |-> TRUE]
    /\ env["BREVO_API_KEY"] = None
    /\ tool_log # <<>>
    /\ ToolReportedError(Len(tool_log))
    /\ ~EmailDelivered /\ send_log = <<>>
    /\ pc = "done" /\ exit_status = Some(0)
    /\ Printed(<<"  - Email sent successfully">>)

----------------------------------------------------------------------------
(***************************************************************************)
(* Properties of the artifacts and of the tools                            *)
(***************************************************************************)
IsNewline(c) == c = LF \/ c = CR
NoCR(t) == \A i \in 1..Len(t) : t[i] # CR
Occurrences(t, c) == Cardinality({i \in 1..Len(t) : t[i] = c})
CRLFs(t) == Cardinality({i \in 1..(Len(t) - 1) : t[i] = CR /\ t[i + 1] = LF})

\* The dict written to search_results.json comes back equal from
\* load_search_results.
ResultsRoundTrip ==
    (saved # None /\ loaded_results # None) =>
        /\ ~loaded_results[1].raises
        /\ loaded_results[1].val = saved[1]

\* C8, as claimed: the dict written to search_results.json is what
\* load_search_results returns, and the text stored in summary_report.md is
\* returned unchanged by load_summary_report.
C8_LosslessRoundTrip ==
    /\ ResultsRoundTrip
    /\ (loaded_report # None =>
           loaded_report[1] = files[SUMMARY_REPORT_FILE][1])

\* C8, amended: the dict comes back equal; the report comes back unchanged
\* when the stored text holds no carriage return, and otherwise with every
\* "\r\n" and every other "\r" turned into "\n" and all else as stored.
C8_RoundTripUpToNewlines ==
    /\ ResultsRoundTrip
    /\ (loaded_report # None =>
           LET stored == files[SUMMARY_REPORT_FILE][1]
               got == loaded_report[1]
           IN  /\ (NoCR(stored) => got = stored)
               /\ NoCR(got)
               /\ SelectSeq(got, LAMBDA c : ~IsNewline(c))
                      = SelectSeq(stored, LAMBDA c : ~IsNewline(c))
               /\ Occurrences(got, LF)
                      = Occurrences(stored, LF) + Occurrences(stored, CR)
                            - CRLFs(stored))

\* C8 witness: two records with quotes, backslashes, newlines and a non-ASCII
\* character were written with "\r\n" line ends and read back, and a report
\* with a line feed was read back.
C8_Witness ==
    /\ saved # None /\ loaded_results # None
    /\ linesep = <<CR, LF>>
    /\ Get(saved[1], <<"research_list">>) =
          PyList(<<MpNewsResearchRecord([mp_name |-> MP1.name], Article1),
                   MpNewsResearchRecord([mp_name |-> OtherName], Article2)>>)
    /\ loaded_results[1].val = saved[1]
    /\ loaded_report = Some(<<"a", LF>>)

\* C9: with its API key unset a tool's _run returns the "not set" error
\* string and makes no request or send call, and no _run raises: the search
\* tool for SERPER_API_KEY, the email tools for BREVO_API_KEY and
\* SENDGRID_API_KEY.
C9_MissingKeyErrorString ==
    /\ \A i \in 1..Len(tool_log) : tool_log[i][2] = "returned"
    /\ env["SERPER_API_KEY"] = None =>
          /\ http_log = <<>>
          /\ \A i \in 1..Len(tool_log) : tool_log[i][1] = "serper" =>
                tool_log[i][3] = <<"Error: ", "SERPER_API_KEY",
                                   " environment variable not set">>
    /\ env["BREVO_API_KEY"] = None =>
          /\ \A i \in 1..Len(send_log) : send_log[i].via # "brevo"
          /\ \A i \in 1..Len(tool_log) : tool_log[i][1] = "brevo" =>
                tool_log[i][3] = <<"Error: ", "BREVO_API_KEY",
                                   " environment variable not set">>
    /\ env["SENDGRID_API_KEY"] = None =>
          /\ \A i \in 1..Len(send_log) : send_log[i].via # "sendgrid"
          /\ \A i \in 1..Len(tool_log) : tool_log[i][1] = "sendgrid" =>
                tool_log[i][3] = <<"Error: ", "SENDGRID_API_KEY",
                                   " environment variable not set">>

\* C9 witness: with no key set, the search tool and an email tool were run.
C9_Witness ==
    /\ \A v \in EnvVars : env[v] = None
    /\ \E i, j \in 1..Len(tool_log) :
          tool_log[i][1] = "serper" /\ tool_log[j][1] = "brevo"
============================================================================
